---- MODULE Spec2Model ----
(***************************************************************************)
(* Bases-Timeline: the timeline algorithms (timeline/algorithms.ts) and    *)
(* the part of TimelineView.renderTimeline that drives them.               *)
(*                                                                         *)
(* Numbers are mathematical integers: the code's doubles are exact on      *)
(* every value the model reaches.  An absent value (null / undefined) is   *)
(* the empty sequence None, a present one the one-element sequence         *)
(* Some(x).                                                                *)
(***************************************************************************)
EXTENDS Integers, Sequences, FiniteSets

VARIABLES
  pc,        \* position of the operation in progress
  months,    \* calendar arithmetic: month lengths of the calendar, <<>> = Gregorian
  date,      \* calendar arithmetic: the (y, m, d) handed to toAbsoluteDay*
  absDay,    \* calendar arithmetic: result of toAbsoluteDay*, None before the call
  back,      \* calendar arithmetic: result of fromAbsoluteDay*, None before the call
  entries,   \* renderTimeline: data.data, the records of the batch
  cfg,       \* renderTimeline: which of endProp / indexProp / calendarProp are configured
  items,     \* result of buildTimelineItems, or the argument of sortByIndexOrDate
  sorted,    \* result of sortByIndexOrDate: the display order handed to assignTracks
  idx,       \* assignTracks: number of items of `sorted` already placed
  tracks,    \* assignTracks: tracks, each a sequence of items
  lastEnd,   \* assignTracks: lastEnd[t], end day of the last item of track t
  conflicts, \* result of detectIndexConflicts
  dateValue, \* parseYearMonthDay called on its own: the value handed to it
  parsed     \* ... and its result, None when unparsable (or before the call)

vars == <<pc, months, date, absDay, back, entries, cfg, items, sorted, idx,
          tracks, lastEnd, conflicts, dateValue, parsed>>

None == <<>>
Some(x) == <<x>>

(***************************************************************************)
(* Bounds of the model.                                                    *)
(***************************************************************************)
MaxYear == 101        \* Gregorian years 0..MaxYear (those around each century)
NegYears == 2         \* Gregorian years -NegYears..-1
MaxDayOfMonth == 31   \* days 1..MaxDayOfMonth are tried in every month
MaxMonths == 3        \* custom calendars have 1..MaxMonths months
MaxMonthLen == 3      \* of 1..MaxMonthLen days each
CustomYears == 2      \* custom calendar years -CustomYears..CustomYears
MaxEntries == 3       \* renderTimeline: a batch has at most MaxEntries records
MaxItems == 4         \* assignTracks called directly: at most MaxItems items
MaxDay == 2           \* ... whose ranges lie in 0..MaxDay
MaxSortItems == 3     \* sortByIndexOrDate called directly: at most MaxSortItems items
MaxSortDay == 1       \* ... whose ranges lie in 0..MaxSortDay
MaxIndex == 1         \* ... and whose indexValue is absent or in -1..MaxIndex
MaxPackedYear == 2    \* parseYearMonthDay called directly: numbers up to year MaxPackedYear
NegPacked == 200      \* ... and the numbers -NegPacked..-1

(***************************************************************************)
(* Arithmetic of the host language.                                        *)
(***************************************************************************)
\* a % b of JavaScript: the remainder has the sign of the dividend.
JsRem(a, b) == IF a >= 0 THEN a % b ELSE -((-a) % b)

Min2(a, b) == IF a < b THEN a ELSE b
Max2(a, b) == IF a > b THEN a ELSE b

RECURSIVE SumSeq(_)
\* months.reduce((a, b) => a + b, 0)
SumSeq(s) == IF s = <<>> THEN 0 ELSE s[1] + SumSeq(Tail(s))

(***************************************************************************)
(* Calendar arithmetic.                                                    *)
(***************************************************************************)
IsLeap(y) ==
  (JsRem(y, 4) = 0 /\ JsRem(y, 100) # 0) \/ JsRem(y, 400) = 0

YearDays(y) == IF IsLeap(y) THEN 366 ELSE 365

MonthDays(y) ==
  <<31, IF IsLeap(y) THEN 29 ELSE 28, 31, 30, 31, 30, 31, 31, 30, 31, 30, 31>>

RECURSIVE DaysBeforeYear(_, _)
\* for (let i = 0; i < Y; i++) days += leap(i) ? 366 : 365, entered at i
DaysBeforeYear(i, Y) ==
  IF i < Y THEN YearDays(i) + DaysBeforeYear(i + 1, Y) ELSE 0

RECURSIVE DaysBeforeMonth(_, _, _)
\* for (let j = 1; j < M; j++) days += monthDays[j - 1], entered at j
DaysBeforeMonth(j, M, md) ==
  IF j < M THEN md[j] + DaysBeforeMonth(j + 1, M, md) ELSE 0

\* a variant that counts the day of the month from 0: days += d
toAbsoluteDayFromZero(y, m, d) ==
  DaysBeforeYear(0, y) + DaysBeforeMonth(1, m, MonthDays(y)) + d

toAbsoluteDay(y, m, d) ==
  DaysBeforeYear(0, y) + DaysBeforeMonth(1, m, MonthDays(y)) + (d - 1)

\* months[i] ?? 30, i counted from 1
MonthAt(ms, i) == IF i \in 1..Len(ms) THEN ms[i] ELSE 30

RECURSIVE DaysBeforeMonthWith(_, _, _)
DaysBeforeMonthWith(j, M, ms) ==
  IF j < M THEN MonthAt(ms, j) + DaysBeforeMonthWith(j + 1, M, ms) ELSE 0

\* a variant that takes the day as it is given
toAbsoluteDayWithMonthsNoClamp(y, m, d, ms) ==
  y * SumSeq(ms) + DaysBeforeMonthWith(1, m, ms) + (d - 1)

toAbsoluteDayWithMonths(y, m, d, ms) ==
  LET yearDays == SumSeq(ms)
      mdCur == MonthAt(ms, m)
      dClamped == Max2(1, Min2(mdCur, d))
  IN  y * yearDays + DaysBeforeMonthWith(1, m, ms) + (dClamped - 1)

RECURSIVE YearWalk(_, _)
\* the while (true) loop of fromAbsoluteDay
YearWalk(day, y) ==
  IF day < YearDays(y) THEN [y |-> y, day |-> day]
  ELSE YearWalk(day - YearDays(y), y + 1)

RECURSIVE MonthWalk(_, _, _)
\* for (i ...) { if (day < md[i]) { m = i + 1; break; } day -= md[i]; }
\* m stays 1 when the loop ends without a break
MonthWalk(day, i, md) ==
  IF i > Len(md) THEN [m |-> 1, day |-> day]
  ELSE IF day < md[i] THEN [m |-> i, day |-> day]
  ELSE MonthWalk(day - md[i], i + 1, md)

fromAbsoluteDay(yday) ==
  LET yw == YearWalk(yday, 0)
      mw == MonthWalk(yw.day, 1, MonthDays(yw.y))
  IN  [y |-> yw.y, m |-> mw.m, d |-> mw.day + 1]

\* integer division that rounds toward zero, as Math.trunc would
TruncDiv(a, b) == IF a >= 0 THEN a \div b ELSE -((-a) \div b)

\* a variant that truncates the year instead of flooring it
fromAbsoluteDayWithMonthsTrunc(yday, ms) ==
  LET yearDays == SumSeq(ms)
      y == TruncDiv(yday, yearDays)
      mw == MonthWalk(yday - y * yearDays, 1, ms)
  IN  [y |-> y, m |-> mw.m, d |-> Min2(MonthAt(ms, mw.m), mw.day + 1)]

fromAbsoluteDayWithMonths(yday, ms) ==
  LET yearDays == SumSeq(ms)
      y == yday \div yearDays
      mw == MonthWalk(yday - y * yearDays, 1, ms)
  IN  [y |-> y, m |-> mw.m, d |-> Min2(MonthAt(ms, mw.m), mw.day + 1)]

(***************************************************************************)
(* External values (obsidian's Value): a NumberValue, a StringValue (its   *)
(* text as a sequence of characters), a ListValue (its elements), or an    *)
(* absent value.                                                           *)
(***************************************************************************)
NullV == [t |-> "null", n |-> 0, s |-> <<>>, l |-> <<>>]
NumV(n) == [t |-> "num", n |-> n, s |-> <<>>, l |-> <<>>]
StrV(s) == [t |-> "str", n |-> 0, s |-> s, l |-> <<>>]
ListV(l) == [t |-> "list", n |-> 0, s |-> <<>>, l |-> l]

DigitChars == <<"0", "1", "2", "3", "4", "5", "6", "7", "8", "9">>
IsDigit(c) == \E i \in 1..10 : DigitChars[i] = c
DigitVal(c) == (CHOOSE i \in 1..10 : DigitChars[i] = c) - 1

RECURSIVE ReadDigits(_, _, _, _)
\* the digits of s from position i on: Some(their value), None when there are none
ReadDigits(s, i, acc, any) ==
  IF i <= Len(s) /\ IsDigit(s[i])
  THEN ReadDigits(s, i + 1, acc * 10 + DigitVal(s[i]), TRUE)
  ELSE IF any THEN Some(acc) ELSE None

RECURSIVE SkipSpaces(_, _)
SkipSpaces(s, i) ==
  IF i <= Len(s) /\ s[i] = " " THEN SkipSpaces(s, i + 1) ELSE i

\* parseInt(s, 10), with Number.isFinite applied: None for NaN
ParseInt(s) ==
  LET i == SkipSpaces(s, 1)
      signed == i <= Len(s) /\ s[i] \in {"-", "+"}
      r == ReadDigits(s, IF signed THEN i + 1 ELSE i, 0, FALSE)
  IN  IF r = None THEN None
      ELSE IF signed /\ s[i] = "-" THEN Some(-r[1]) ELSE r

\* Number(s), with Number.isFinite applied, for a text of an optional sign and digits
ToNumber(s) ==
  LET signed == s # <<>> /\ s[1] \in {"-", "+"}
      from == IF signed THEN 2 ELSE 1
  IN  IF from <= Len(s) /\ \A i \in from..Len(s) : IsDigit(s[i])
      THEN ParseInt(s) ELSE None

BracketChars == {"[", "]", "(", ")", "{", "}"}
SeparatorChars == {" ", ",", "/", "-"}

IsNotBracket(c) == c \notin BracketChars

\* s.replace(/\[|\]|\(|\)|\{|\}/g, '')
StripBrackets(s) == SelectSeq(s, IsNotBracket)

RECURSIVE SplitTokens(_, _, _, _)
\* s.split(/[\s,\/\-]+/).filter(Boolean): the non-empty runs between separators
SplitTokens(s, i, cur, out) ==
  IF i > Len(s)
  THEN IF cur = <<>> THEN out ELSE Append(out, cur)
  ELSE IF s[i] \in SeparatorChars
  THEN SplitTokens(s, i + 1, <<>>, IF cur = <<>> THEN out ELSE Append(out, cur))
  ELSE SplitTokens(s, i + 1, Append(cur, s[i]), out)

parseComponent(v) ==
  IF v.t = "num" THEN Some(v.n)
  ELSE IF v.t = "str" THEN ParseInt(v.s)
  ELSE None

\* a variant that does not look at the day: if (y && m)
ParsePackedAnyDay(n) ==
  LET y == n \div 10000
      m == JsRem(n, 10000) \div 100
      d == JsRem(n, 100)
  IN  IF y # 0 /\ m # 0
      THEN Some([y |-> y, m |-> m, d |-> d]) ELSE None

\* the NumberValue branch of parseYearMonthDay: n as a packed YYYYMMDD
ParsePacked(n) ==
  LET y == n \div 10000
      m == JsRem(n, 10000) \div 100
      d == JsRem(n, 100)
  IN  IF y # 0 /\ m # 0 /\ d # 0
      THEN Some([y |-> y, m |-> m, d |-> d]) ELSE None

parseYearMonthDay(value) ==
  IF value.t = "list" THEN
    IF Len(value.l) >= 3 THEN
      LET y == parseComponent(value.l[1])
          m == parseComponent(value.l[2])
          d == parseComponent(value.l[3])
      IN  IF y # None /\ m # None /\ d # None
          THEN Some([y |-> y[1], m |-> m[1], d |-> d[1]]) ELSE None
    ELSE None
  ELSE IF value.t = "str" THEN
    LET parts == SplitTokens(StripBrackets(value.s), 1, <<>>, <<>>)
    IN  IF Len(parts) >= 3 THEN
          LET y == ParseInt(parts[1])
              m == ParseInt(parts[2])
              d == ParseInt(parts[3])
          IN  IF y # None /\ m # None /\ d # None
              THEN Some([y |-> y[1], m |-> m[1], d |-> d[1]]) ELSE None
        ELSE None
  ELSE IF value.t = "num" THEN ParsePacked(value.n)
  ELSE None

\* the day of a parsed date under the calendar of its record
DayOf(ymd, calendarMonths) ==
  IF calendarMonths # None /\ Len(calendarMonths[1]) > 0
  THEN toAbsoluteDayWithMonths(ymd.y, ymd.m, ymd.d, calendarMonths[1])
  ELSE toAbsoluteDay(ymd.y, ymd.m, ymd.d)

\* a variant without the clamp of an end before the start
extractDateRangeNoClamp(entry, endProp, calendarMonths) ==
  LET start == parseYearMonthDay(entry.start)
      end == parseYearMonthDay(entry.end)
  IN  IF start = None THEN None
      ELSE LET startDay == DayOf(start[1], calendarMonths)
           IN  IF endProp /\ end # None
               THEN Some([startDay |-> startDay, endDay |-> DayOf(end[1], calendarMonths)])
               ELSE Some([startDay |-> startDay, endDay |-> startDay])

\* a variant that gives up on a record whose end does not parse
extractDateRangeNeedsEnd(entry, endProp, calendarMonths) ==
  LET start == parseYearMonthDay(entry.start)
      end == parseYearMonthDay(entry.end)
  IN  IF start = None \/ (endProp /\ end = None) THEN None
      ELSE LET startDay == DayOf(start[1], calendarMonths)
               endDay == IF endProp THEN DayOf(end[1], calendarMonths) ELSE startDay
           IN  Some([startDay |-> startDay, endDay |-> Max2(startDay, endDay)])

\* startProp is configured: renderTimeline returns before the call otherwise
extractDateRange(entry, endProp, calendarMonths) ==
  LET start == parseYearMonthDay(entry.start)
  IN  IF start = None THEN None
      ELSE LET startDay == DayOf(start[1], calendarMonths)
               end == IF endProp THEN parseYearMonthDay(entry.end) ELSE None
               endDay == IF end = None THEN startDay
                         ELSE Max2(startDay, DayOf(end[1], calendarMonths))
           IN  Some([startDay |-> startDay, endDay |-> endDay])

IsPositive(n) == n > 0

RECURSIVE ParsedComponents(_)
\* the elements of a list that parseComponent resolves, in order
ParsedComponents(l) ==
  IF l = <<>> THEN <<>>
  ELSE LET n == parseComponent(Head(l))
       IN  (IF n # None THEN <<n[1]>> ELSE <<>>) \o ParsedComponents(Tail(l))

\* the months of a record: None (Gregorian) or Some(month lengths)
CalendarMonths(entry, calendarProp) ==
  IF calendarProp /\ entry.calendar.t = "list" /\ Len(entry.calendar.l) > 0
  THEN LET arr == SelectSeq(ParsedComponents(entry.calendar.l), IsPositive)
       IN  IF Len(arr) > 0 THEN Some(arr) ELSE None
  ELSE None

\* v.isTruthy()
IsTruthy(v) ==
  \/ v.t = "num" /\ v.n # 0
  \/ v.t = "str" /\ v.s # <<>>
  \/ v.t = "list" /\ v.l # <<>>

\* the indexValue of a record: None when absent
IndexValue(entry, indexProp) ==
  IF indexProp /\ IsTruthy(entry.index)
  THEN IF entry.index.t = "num" THEN Some(entry.index.n)
       ELSE IF entry.index.t = "str" THEN ToNumber(entry.index.s)
       ELSE None
  ELSE None

RECURSIVE BuildFrom(_, _, _)
\* the for loop of buildTimelineItems, entered at record k; a record's identity
\* (entry.file.path) is its position in the batch
BuildFrom(es, k, c) ==
  IF k > Len(es) THEN <<>>
  ELSE LET range == extractDateRange(es[k], c.endProp,
                                     CalendarMonths(es[k], c.calendarProp))
       IN  IF range = None THEN BuildFrom(es, k + 1, c)
           ELSE <<[path |-> k,
                   startDay |-> range[1].startDay,
                   endDay |-> range[1].endDay,
                   indexValue |-> IndexValue(es[k], c.indexProp)]>>
                \o BuildFrom(es, k + 1, c)

buildTimelineItems(es, c) == BuildFrom(es, 1, c)

(***************************************************************************)
(* Sorting, track assignment, conflict detection.                          *)
(***************************************************************************)
\* a variant with the operands exchanged: b - a
DateLessDescending(a, b) ==
  \/ b.startDay < a.startDay
  \/ b.startDay = a.startDay /\ b.endDay < a.endDay

\* a variant that compares the start days only
DateLessStartOnly(a, b) == a.startDay < b.startDay

\* a.range.startDay - b.range.startDay || a.range.endDay - b.range.endDay is negative
DateLess(a, b) ==
  \/ a.startDay < b.startDay
  \/ a.startDay = b.startDay /\ a.endDay < b.endDay

\* i.indexValue ?? 0
IndexKey(it) == IF it.indexValue = None THEN 0 ELSE it.indexValue[1]

\* (a.indexValue ?? 0) - (b.indexValue ?? 0) is negative
IndexLess(a, b) == IndexKey(a) < IndexKey(b)

\* the comparator's verdict "a before b": the index comparator or the date one
Less(byIndex, a, b) == IF byIndex THEN IndexLess(a, b) ELSE DateLess(a, b)

RECURSIVE InsertSorted(_, _, _)
\* x placed after every element that does not compare greater than it
InsertSorted(x, s, byIndex) ==
  IF s = <<>> THEN <<x>>
  ELSE IF Less(byIndex, x, Head(s)) THEN <<x>> \o s
  ELSE <<Head(s)>> \o InsertSorted(x, Tail(s), byIndex)

RECURSIVE StableSort(_, _)
\* Array.prototype.sort: a stable sort by the comparator
StableSort(s, byIndex) ==
  IF s = <<>> THEN <<>>
  ELSE InsertSorted(s[Len(s)], StableSort(SubSeq(s, 1, Len(s) - 1), byIndex), byIndex)

\* a variant that sorts by index only when every item has one
sortByIndexOrDateEvery(its) ==
  StableSort(its, \A k \in 1..Len(its) : its[k].indexValue # None)

sortByIndexOrDate(its) ==
  StableSort(its, \E k \in 1..Len(its) : its[k].indexValue # None)

\* a variant that lets an item start on the day the previous one ends
FitsTouching(startDay, le) == startDay >= le

\* a variant that wants a free day between two items
FitsWithGap(startDay, le) == startDay > le + 1

\* item.range.startDay > lastEnd[t]
Fits(startDay, le) == startDay > le

RECURSIVE ScanTracks(_, _, _)
\* the inner for loop of assignTracks, entered at track t: the first track the
\* item fits on, 0 when it fits on none
ScanTracks(it, le, t) ==
  IF t > Len(le) THEN 0
  ELSE IF Fits(it.startDay, le[t]) THEN t
  ELSE ScanTracks(it, le, t + 1)

\* a variant that takes the last track the item fits on
LastFitTrack(it, le) ==
  LET Q == {t \in 1..Len(le) : Fits(it.startDay, le[t])}
  IN  IF Q = {} THEN 0 ELSE CHOOSE t \in Q : \A u \in Q : u <= t

FirstFitTrack(it, le) == ScanTracks(it, le, 1)

\* the items with startDay and endDay exchanged
SwapDays(its) ==
  [k \in 1..Len(its) |->
     [its[k] EXCEPT !.startDay = its[k].endDay, !.endDay = its[k].startDay]]

\* a variant that ranks by endDay first, then startDay
DateSortedByEnd(its) == SwapDays(StableSort(SwapDays(its), FALSE))

\* dateSorted of detectIndexConflicts
DateSorted(its) == StableSort(its, FALSE)

\* positionByPath.get(path) ?? 0, positions counted from 1 (the last write wins)
PositionByPath(ds, path) ==
  LET P == {i \in 1..Len(ds) : ds[i].path = path}
  IN  IF P = {} THEN 1 ELSE CHOOSE i \in P : \A j \in P : j <= i

\* a variant that flags only the later-displayed item of an inverted pair
detectIndexConflictsCurrOnly(its) ==
  IF Len(its) <= 1 THEN {}
  ELSE LET ds == DateSorted(its)
       IN  {its[i].path : i \in {j \in 2..Len(its) :
              PositionByPath(ds, its[j].path) < PositionByPath(ds, its[j - 1].path)}}

detectIndexConflicts(its) ==
  IF Len(its) <= 1 THEN {}
  ELSE LET ds == DateSorted(its)
           inverted == {i \in 2..Len(its) :
              PositionByPath(ds, its[i].path) < PositionByPath(ds, its[i - 1].path)}
       IN  {its[i - 1].path : i \in inverted} \cup {its[i].path : i \in inverted}

(***************************************************************************)
(* The calendar functions called on their own (they are exported for the   *)
(* rendering layer).                                                       *)
(***************************************************************************)
GregorianYears ==
  {y \in 0..MaxYear : y % 100 < 5 \/ y % 100 = 99} \cup {-y : y \in 1..NegYears}

CustomCalendars ==
  UNION {[1..n -> 1..MaxMonthLen] : n \in 1..MaxMonths}

Idle ==
  /\ entries = <<>>
  /\ cfg = [endProp |-> FALSE, indexProp |-> FALSE, calendarProp |-> FALSE]
  /\ items = <<>>
  /\ sorted = <<>>
  /\ idx = 0
  /\ tracks = <<>>
  /\ lastEnd = <<>>
  /\ conflicts = {}
  /\ dateValue = NullV
  /\ parsed = None

InitCalendar ==
  /\ pc = "toAbs"
  /\ \/ /\ months = <<>>
        /\ date \in [y : GregorianYears, m : 1..12, d : 1..MaxDayOfMonth]
     \/ /\ months \in CustomCalendars
        /\ date \in [y : -CustomYears..CustomYears,
                     m : 0..(Len(months) + 1),
                     d : 0..(MaxMonthLen + 1)]
  /\ absDay = None
  /\ back = None
  /\ Idle

ToAbsoluteDay ==
  /\ pc = "toAbs"
  /\ months = <<>>
  /\ absDay' = Some(toAbsoluteDay(date.y, date.m, date.d))
  /\ pc' = "fromAbs"
  /\ UNCHANGED <<dateValue, parsed, months, date, back, entries, cfg, items, sorted, idx,
                 tracks, lastEnd, conflicts>>

ToAbsoluteDayWithMonths ==
  /\ pc = "toAbs"
  /\ months # <<>>
  /\ absDay' = Some(toAbsoluteDayWithMonths(date.y, date.m, date.d, months))
  /\ pc' = "fromAbs"
  /\ UNCHANGED <<dateValue, parsed, months, date, back, entries, cfg, items, sorted, idx,
                 tracks, lastEnd, conflicts>>

FromAbsoluteDay ==
  /\ pc = "fromAbs"
  /\ months = <<>>
  /\ back' = Some(fromAbsoluteDay(absDay[1]))
  /\ pc' = "calDone"
  /\ UNCHANGED <<dateValue, parsed, months, date, absDay, entries, cfg, items, sorted, idx,
                 tracks, lastEnd, conflicts>>

FromAbsoluteDayWithMonths ==
  /\ pc = "fromAbs"
  /\ months # <<>>
  /\ back' = Some(fromAbsoluteDayWithMonths(absDay[1], months))
  /\ pc' = "calDone"
  /\ UNCHANGED <<dateValue, parsed, months, date, absDay, entries, cfg, items, sorted, idx,
                 tracks, lastEnd, conflicts>>

NextCalendar ==
  \/ ToAbsoluteDay
  \/ ToAbsoluteDayWithMonths
  \/ FromAbsoluteDay
  \/ FromAbsoluteDayWithMonths

SpecCalendar == InitCalendar /\ [][NextCalendar]_vars

(***************************************************************************)
(* The records of the model's batches.                                     *)
(***************************************************************************)
Entry(start, end, index, calendar) ==
  [start |-> start, end |-> end, index |-> index, calendar |-> calendar]

RecordPool ==
  { \* [4, 1, 1] .. [4, "1", 5], index 2
    Entry(ListV(<<NumV(4), NumV(1), NumV(1)>>),
          ListV(<<NumV(4), StrV(<<"1">>), NumV(5)>>), NumV(2), NullV),
    \* "0004-01-03" .. "[4/01/10]", index 1
    Entry(StrV(<<"0", "0", "0", "4", "-", "0", "1", "-", "0", "3">>),
          StrV(<<"[", "4", "/", "0", "1", "/", "1", "0", "]">>), NumV(1), NullV),
    \* 40201 .. 40205, index 3
    Entry(NumV(40201), NumV(40205), NumV(3), NullV),
    \* "4-x-1": no month, the start does not parse
    Entry(StrV(<<"4", "-", "x", "-", "1">>), NumV(40110), NumV(4), NullV),
    \* [4, 1, 5] .. [4, 1, 2]: the end is before the start; calendar [10, 0, "20"]
    Entry(ListV(<<NumV(4), NumV(1), NumV(5)>>),
          ListV(<<NumV(4), NumV(1), NumV(2)>>), NullV,
          ListV(<<NumV(10), NumV(0), StrV(<<"2", "0">>)>>)),
    \* 40106 .. [4, 1]: the end has two elements only; index 0 is not truthy
    Entry(NumV(40106), ListV(<<NumV(4), NumV(1)>>), NumV(0), NullV),
    \* "(4, 1, 6)", no end; index "x" is no number; the calendar is no list
    Entry(StrV(<<"(", "4", ",", " ", "1", ",", " ", "6", ")">>), NullV,
          StrV(<<"x">>), NumV(12)) }

SeqsUpTo(S, n) == UNION {[1..k -> S] : k \in 0..n}

\* item sequences whose identities are their positions
WithPaths(s) ==
  [k \in 1..Len(s) |->
     [path |-> k, startDay |-> s[k].startDay, endDay |-> s[k].endDay,
      indexValue |-> s[k].indexValue]]

Ranges(maxDay) ==
  {r \in [startDay : 0..maxDay, endDay : 0..maxDay] : r.endDay >= r.startDay}

LayoutItems ==
  {[startDay |-> r.startDay, endDay |-> r.endDay, indexValue |-> None] :
     r \in Ranges(MaxDay)}

SortItems ==
  {[startDay |-> r.startDay, endDay |-> r.endDay, indexValue |-> iv] :
     r \in Ranges(MaxSortDay), iv \in {None} \cup {Some(n) : n \in -1..MaxIndex}}

NoCalendarCall ==
  /\ months = <<>>
  /\ date = [y |-> 0, m |-> 1, d |-> 1]
  /\ absDay = None
  /\ back = None

NoParseCall ==
  /\ dateValue = NullV
  /\ parsed = None

\* renderTimeline on a batch of records
InitRender ==
  /\ pc = "build"
  /\ entries \in SeqsUpTo(RecordPool, MaxEntries)
  /\ cfg \in [endProp : BOOLEAN, indexProp : BOOLEAN, calendarProp : BOOLEAN]
  /\ items = <<>>
  /\ sorted = <<>>
  /\ idx = 0
  /\ tracks = <<>>
  /\ lastEnd = <<>>
  /\ conflicts = {}
  /\ NoCalendarCall
  /\ NoParseCall

\* assignTracks and detectIndexConflicts on a display order of any kind
InitLayout ==
  /\ pc = "assign"
  /\ \E s \in SeqsUpTo(LayoutItems, MaxItems) : sorted = WithPaths(s)
  /\ entries = <<>>
  /\ cfg = [endProp |-> FALSE, indexProp |-> FALSE, calendarProp |-> FALSE]
  /\ items = <<>>
  /\ idx = 0
  /\ tracks = <<>>
  /\ lastEnd = <<>>
  /\ conflicts = {}
  /\ NoCalendarCall
  /\ NoParseCall

\* sortByIndexOrDate on items of any kind
InitSort ==
  /\ pc = "sort"
  /\ \E s \in SeqsUpTo(SortItems, MaxSortItems) : items = WithPaths(s)
  /\ entries = <<>>
  /\ cfg = [endProp |-> FALSE, indexProp |-> FALSE, calendarProp |-> FALSE]
  /\ sorted = <<>>
  /\ idx = 0
  /\ tracks = <<>>
  /\ lastEnd = <<>>
  /\ conflicts = {}
  /\ NoCalendarCall
  /\ NoParseCall

Init == InitRender \/ InitLayout

BuildTimelineItems ==
  /\ pc = "build"
  /\ items' = buildTimelineItems(entries, cfg)
  /\ pc' = "built"
  /\ UNCHANGED <<dateValue, parsed, months, date, absDay, back, entries, cfg, sorted, idx,
                 tracks, lastEnd, conflicts>>

\* if (items.length === 0) return
RenderNothing ==
  /\ pc = "built"
  /\ Len(items) = 0
  /\ pc' = "done"
  /\ UNCHANGED <<dateValue, parsed, months, date, absDay, back, entries, cfg, items, sorted, idx,
                 tracks, lastEnd, conflicts>>

SortByIndexOrDate ==
  /\ pc = "built"
  /\ Len(items) # 0
  /\ sorted' = sortByIndexOrDate(items)
  /\ pc' = "assign"
  /\ UNCHANGED <<dateValue, parsed, months, date, absDay, back, entries, cfg, items, idx,
                 tracks, lastEnd, conflicts>>

\* a variant of the round that overwrites the track it reuses: tracks[t] = [item]
AssignTracksStepReplacing ==
  /\ pc = "assign"
  /\ idx < Len(sorted)
  /\ LET item == sorted[idx + 1]
         t == FirstFitTrack(item, lastEnd)
     IN  IF t # 0
         THEN /\ tracks' = [tracks EXCEPT ![t] = <<item>>]
              /\ lastEnd' = [lastEnd EXCEPT ![t] = item.endDay]
         ELSE /\ tracks' = Append(tracks, <<item>>)
              /\ lastEnd' = Append(lastEnd, item.endDay)
  /\ idx' = idx + 1
  /\ UNCHANGED <<dateValue, parsed, pc, months, date, absDay, back, entries, cfg,
                 items, sorted, conflicts>>

\* one round of the for loop of assignTracks
AssignTracksStep ==
  /\ pc = "assign"
  /\ idx < Len(sorted)
  /\ LET item == sorted[idx + 1]
         t == FirstFitTrack(item, lastEnd)
     IN  IF t # 0
         THEN /\ tracks' = [tracks EXCEPT ![t] = Append(@, item)]
              /\ lastEnd' = [lastEnd EXCEPT ![t] = item.endDay]
         ELSE /\ tracks' = Append(tracks, <<item>>)
              /\ lastEnd' = Append(lastEnd, item.endDay)
  /\ idx' = idx + 1
  /\ UNCHANGED <<dateValue, parsed, pc, months, date, absDay, back, entries, cfg, items, sorted,
                 conflicts>>

\* return { tracks }
AssignTracksReturn ==
  /\ pc = "assign"
  /\ idx = Len(sorted)
  /\ pc' = "detect"
  /\ UNCHANGED <<dateValue, parsed, months, date, absDay, back, entries, cfg, items, sorted, idx,
                 tracks, lastEnd, conflicts>>

DetectIndexConflicts ==
  /\ pc = "detect"
  /\ conflicts' = detectIndexConflicts(sorted)
  /\ pc' = "done"
  /\ UNCHANGED <<dateValue, parsed, months, date, absDay, back, entries, cfg, items, sorted, idx,
                 tracks, lastEnd>>

Next ==
  \/ BuildTimelineItems
  \/ RenderNothing
  \/ SortByIndexOrDate
  \/ AssignTracksStep
  \/ AssignTracksReturn
  \/ DetectIndexConflicts

Spec == Init /\ [][Next]_vars

\* sortByIndexOrDate called on its own
SortCall ==
  /\ pc = "sort"
  /\ sorted' = sortByIndexOrDate(items)
  /\ pc' = "sorted"
  /\ UNCHANGED <<dateValue, parsed, months, date, absDay, back, entries, cfg, items, idx,
                 tracks, lastEnd, conflicts>>

NextSort == SortCall

SpecSort == InitSort /\ [][NextSort]_vars

\* parseYearMonthDay on a value of any shape
DateValues ==
  {NumV(n) : n \in (-NegPacked)..(MaxPackedYear * 10000 + 9999)}
    \cup {e.start : e \in RecordPool} \cup {e.end : e \in RecordPool}

InitParse ==
  /\ pc = "parse"
  /\ dateValue \in DateValues
  /\ parsed = None
  /\ entries = <<>>
  /\ cfg = [endProp |-> FALSE, indexProp |-> FALSE, calendarProp |-> FALSE]
  /\ items = <<>>
  /\ sorted = <<>>
  /\ idx = 0
  /\ tracks = <<>>
  /\ lastEnd = <<>>
  /\ conflicts = {}
  /\ NoCalendarCall

ParseYearMonthDay ==
  /\ pc = "parse"
  /\ parsed' = parseYearMonthDay(dateValue)
  /\ pc' = "parsed"
  /\ UNCHANGED <<dateValue, months, date, absDay, back, entries, cfg, items,
                 sorted, idx, tracks, lastEnd, conflicts>>

NextParse == ParseYearMonthDay

SpecParse == InitParse /\ [][NextParse]_vars

(***************************************************************************)
(* C1: Gregorian round trip.  For every year y >= 0, month 1..12 and day   *)
(* within the month's length (Feb 29 of leap years included),              *)
(* fromAbsoluteDay(toAbsoluteDay(y, m, d)) is exactly (y, m, d).           *)
(***************************************************************************)
ValidGregorian(dt) ==
  /\ dt.y >= 0
  /\ dt.m \in 1..12
  /\ dt.d \in 1..MonthDays(dt.y)[dt.m]

GregorianRoundTrip ==
  (pc = "calDone" /\ months = <<>> /\ ValidGregorian(date))
    => back = Some(date)

GregorianRoundTripWitness ==
  /\ pc = "calDone"
  /\ months = <<>>
  /\ date = [y |-> 4, m |-> 2, d |-> 29]
  /\ back = Some(date)

(***************************************************************************)
(* C2: custom-calendar round trip.  For every non-empty list of positive   *)
(* month lengths, every integer year, month 1..length(months) and day      *)
(* 1..months[m-1], fromAbsoluteDayWithMonths(toAbsoluteDayWithMonths(y, m, *)
(* d, months), months) is exactly (y, m, d).                               *)
(***************************************************************************)
ValidCustom(dt, ms) ==
  /\ dt.m \in 1..Len(ms)
  /\ dt.d \in 1..ms[dt.m]

CustomRoundTrip ==
  (pc = "calDone" /\ months # <<>> /\ ValidCustom(date, months))
    => back = Some(date)

CustomRoundTripWitness ==
  /\ pc = "calDone"
  /\ months = <<2, 3, 1>>
  /\ date = [y |-> -2, m |-> 3, d |-> 1]
  /\ back = Some(date)

(***************************************************************************)
(* C3: every item buildTimelineItems returns has endDay >= startDay,       *)
(* whatever its start and end values parse to and whichever calendar is    *)
(* used: an end that is absent or does not parse gives endDay = startDay,  *)
(* and a parsed end before the start is raised to startDay.                *)
(***************************************************************************)
EndIsBeforeStart(k) ==
  LET e == entries[items[k].path]
      end == parseYearMonthDay(e.end)
  IN  /\ cfg.endProp
      /\ end # None
      /\ DayOf(end[1], CalendarMonths(e, cfg.calendarProp)) < items[k].startDay

TracksNeverOverlap ==
  \A t \in 1..Len(tracks) :
    \A j \in 1..(Len(tracks[t]) - 1) :
      tracks[t][j + 1].startDay > tracks[t][j].endDay

StartSorted(s) ==
  \A k \in 1..(Len(s) - 1) : s[k].startDay <= s[k + 1].startDay

TracksNeverOverlapWitness ==
  /\ pc = "assign"
  /\ idx = Len(sorted)
  /\ ~StartSorted(sorted)
  /\ Len(tracks) >= 2
  /\ \E t \in 1..Len(tracks) : Len(tracks[t]) >= 2

(***************************************************************************)
(* C5: the conflict set is symmetric: every identity in it has a           *)
(* display-adjacent item (immediately before or after it in the sequence)  *)
(* of another identity that is in the set too; no record is flagged alone. *)
(***************************************************************************)
ConflictsSymmetric ==
  \A p \in conflicts :
    \E k \in 1..Len(sorted) :
      /\ sorted[k].path = p
      /\ \E j \in {k - 1, k + 1} \cap (1..Len(sorted)) :
           /\ sorted[j].path # p
           /\ sorted[j].path \in conflicts

ConflictsSymmetricWitness ==
  /\ pc = "done"
  /\ conflicts # {}
  /\ \E k \in 1..Len(sorted) : sorted[k].path \notin conflicts

(***************************************************************************)
(* C6: sortByIndexOrDate returns a permutation of its input chosen by a    *)
(* batch-wide switch: if some item has an indexValue, the result ascends   *)
(* by indexValue with absent counted as 0 and equal keys in input order;   *)
(* if none has, it ascends by startDay and, for equal startDay, by endDay. *)
(***************************************************************************)
KeyOrZero(it) == IF Len(it.indexValue) = 0 THEN 0 ELSE it.indexValue[1]

SortContract ==
  pc = "sorted" =>
    /\ Len(sorted) = Len(items)
    /\ {sorted[k] : k \in 1..Len(sorted)} = {items[k] : k \in 1..Len(items)}
    /\ \A k \in 1..(Len(sorted) - 1) :
         LET a == sorted[k]
             b == sorted[k + 1]
         IN  IF \E i \in 1..Len(items) : Len(items[i].indexValue) # 0
             THEN \/ KeyOrZero(a) < KeyOrZero(b)
                  \/ KeyOrZero(a) = KeyOrZero(b) /\ a.path < b.path
             ELSE \/ a.startDay < b.startDay
                  \/ a.startDay = b.startDay /\ a.endDay <= b.endDay

SortContractWitness ==
  /\ pc = "sorted"
  /\ sorted # items
  /\ \E i \in 1..Len(items) : items[i].indexValue = None
  /\ \E i \in 1..Len(items) : items[i].indexValue = Some(-1)
  /\ \E i \in 1..Len(items) : items[i].indexValue = Some(0)

(***************************************************************************)
(* C7: assignTracks produces the minimum number of lanes achievable under  *)
(* the fixed input order: no partition of the sequence into                *)
(* order-preserving subsequences, each with next.startDay > prev.endDay    *)
(* for consecutive items, uses fewer tracks.                               *)
(*   Stated for every input sequence this fails (TracksMinimalInAnyOrder); *)
(* it holds for the sequences in non-decreasing startDay order             *)
(* (TracksMinimalWhenStartSorted).                                         *)
(***************************************************************************)
\* f assigns the items of s to lanes; each lane, read in the order of s, is a track
IsLanePartition(f, s) ==
  \A i, j \in 1..Len(s) :
    (/\ i < j
     /\ f[i] = f[j]
     /\ \A l \in (i + 1)..(j - 1) : f[l] # f[i])
      => s[j].startDay > s[i].endDay

FewerLanesPossible ==
  /\ Len(tracks) >= 2
  /\ \E f \in [1..Len(sorted) -> 1..(Len(tracks) - 1)] : IsLanePartition(f, sorted)

TracksMinimalInAnyOrder ==
  pc = "detect" => ~FewerLanesPossible

TracksMinimalWhenStartSorted ==
  (pc = "detect" /\ StartSorted(sorted)) => ~FewerLanesPossible

TracksMinimalWhenStartSortedWitness ==
  /\ pc = "detect"
  /\ StartSorted(sorted)
  /\ Len(tracks) >= 2
  /\ Len(sorted) > Len(tracks)

(***************************************************************************)
(* C8: detectIndexConflicts flags exactly the inverted display-adjacent    *)
(* pairs: an identity is in the result iff it belongs to a pair            *)
(* (items[i-1], items[i]) in which items[i] is strictly earlier than       *)
(* items[i-1] in the order by startDay, then endDay.  Three records ranked *)
(* 1, 2, 3 chronologically and displayed as 2, 1, 3 give {1, 2}.           *)
(***************************************************************************)
StrictlyEarlier(a, b) ==
  \/ a.startDay < b.startDay
  \/ a.startDay = b.startDay /\ a.endDay < b.endDay

InvertedPairs ==
  {i \in 2..Len(sorted) : StrictlyEarlier(sorted[i], sorted[i - 1])}

\* the records of scenarios A and B: Jan 1..5, Jan 3..10, Feb 1..5, indices 2, 1, 3
ScenarioEntries ==
  <<Entry(ListV(<<NumV(4), NumV(1), NumV(1)>>),
          ListV(<<NumV(4), StrV(<<"1">>), NumV(5)>>), NumV(2), NullV),
    Entry(StrV(<<"0", "0", "0", "4", "-", "0", "1", "-", "0", "3">>),
          StrV(<<"[", "4", "/", "0", "1", "/", "1", "0", "]">>), NumV(1), NullV),
    Entry(NumV(40201), NumV(40205), NumV(3), NullV)>>

ConflictsAreInvertedPairs ==
  pc = "done" =>
    /\ conflicts = {sorted[i].path : i \in InvertedPairs}
                     \cup {sorted[i - 1].path : i \in InvertedPairs}
    /\ (entries = ScenarioEntries /\ cfg.indexProp) =>
         /\ [k \in 1..Len(sorted) |-> sorted[k].path] = <<2, 1, 3>>
         /\ conflicts = {1, 2}

ConflictsAreInvertedPairsWitness ==
  /\ pc = "done"
  /\ entries = ScenarioEntries
  /\ cfg.indexProp
  /\ conflicts = {1, 2}

(***************************************************************************)
(* C9: buildTimelineItems returns exactly one item for each record whose   *)
(* start value parses, in input order, and none for a record whose start   *)
(* does not parse (BuildTimelineItems has no guard on the records: the     *)
(* call completes on every batch); an empty batch gives an empty item      *)
(* list, and an empty item list an empty track list and an empty conflict  *)
(* set.                                                                    *)
(***************************************************************************)
BuildKeepsParsedRecords ==
  /\ pc # "build" =>
       /\ \A k \in 1..Len(entries) :
            Cardinality({j \in 1..Len(items) : items[j].path = k})
              = IF parseYearMonthDay(entries[k].start) # None THEN 1 ELSE 0
       /\ \A j \in 1..Len(items) : items[j].path \in 1..Len(entries)
       /\ \A j \in 1..(Len(items) - 1) : items[j].path < items[j + 1].path
       /\ Len(entries) = 0 => Len(items) = 0
  /\ (pc = "done" /\ Len(sorted) = 0) => (Len(tracks) = 0 /\ conflicts = {})

BuildKeepsParsedRecordsWitness ==
  /\ pc = "built"
  /\ Len(entries) = 3
  /\ [j \in 1..Len(items) |-> items[j].path] = <<1, 3>>

(***************************************************************************)
(* C10: assignTracks is first-fit in track order: each item goes to the    *)
(* lowest-numbered existing track whose last-placed item ends strictly     *)
(* before the item starts (startDay = lastEnd does not qualify, startDay = *)
(* lastEnd + 1 does), and a new track is appended only when no existing    *)
(* track qualifies.  Date-sorted Jan 1..5, Jan 3..10, Feb 1..5 give two    *)
(* tracks with the third item on the first.                                *)
(***************************************************************************)
\* the place in the display order of the j-th item of track t
PlaceOf(t, j) == CHOOSE i \in 1..Len(sorted) : sorted[i].path = tracks[t][j].path

\* the items of track u placed before the item at place p
PlacedBefore(u, p) == {j \in 1..Len(tracks[u]) : PlaceOf(u, j) < p}

\* the end day of the last item of track u placed before place p
LastEndBefore(u, p) ==
  tracks[u][CHOOSE j \in PlacedBefore(u, p) : \A h \in PlacedBefore(u, p) : h <= j].endDay

FirstFitPlacement ==
  /\ \A t \in 1..Len(tracks) : \A j \in 1..Len(tracks[t]) :
       LET p == PlaceOf(t, j)
           existing == {u \in 1..Len(tracks) : PlacedBefore(u, p) # {}}
           qualifying == {u \in existing :
                            LastEndBefore(u, p) < tracks[t][j].startDay}
       IN  IF qualifying # {}
           THEN t \in qualifying /\ \A u \in qualifying : t <= u
           ELSE t \notin existing /\ t = Cardinality(existing) + 1
  /\ (/\ pc \in {"detect", "done"}
      /\ entries = ScenarioEntries
      /\ cfg.endProp
      /\ ~cfg.indexProp) =>
        [t \in 1..Len(tracks) |-> [j \in 1..Len(tracks[t]) |-> tracks[t][j].path]]
          = <<(<<1, 3>>), (<<2>>)>>

FirstFitPlacementWitness ==
  /\ pc = "detect"
  /\ entries = ScenarioEntries
  /\ cfg.endProp
  /\ ~cfg.indexProp
  /\ Len(tracks) = 2
  /\ tracks[1][2].path = 3

(***************************************************************************)
(* C11: when no item of the batch has an indexValue (date-sorted display   *)
(* order), the number of tracks of assignTracks(sortByIndexOrDate(items))  *)
(* is the global minimum: the largest number of items whose closed ranges  *)
(* [startDay, endDay] contain a common day.                                *)
(***************************************************************************)
\* the display order is what sortByIndexOrDate gives for items without index
NoIndexDateSorted ==
  /\ \A k \in 1..Len(sorted) : sorted[k].indexValue = None
  /\ sorted = sortByIndexOrDate(sorted)

\* the number of items of s whose range contains day
CoveringDay(s, day) ==
  Cardinality({k \in 1..Len(s) : s[k].startDay <= day /\ day <= s[k].endDay})

\* the largest number of ranges of s with a common day (one is some start day)
OverlapDepth(s) ==
  IF Len(s) = 0 THEN 0
  ELSE LET depths == {CoveringDay(s, s[k].startDay) : k \in 1..Len(s)}
       IN  CHOOSE n \in depths : \A o \in depths : o <= n

TracksEqualOverlapDepth ==
  (pc = "detect" /\ NoIndexDateSorted) => Len(tracks) = OverlapDepth(sorted)

TracksEqualOverlapDepthWitness ==
  /\ pc = "detect"
  /\ NoIndexDateSorted
  /\ Len(entries) = 3
  /\ Len(sorted) = 3
  /\ Len(tracks) = 2
  /\ OverlapDepth(sorted) = 2

(***************************************************************************)
(* C12: a NumberValue n >= 0 parses as the packed triple                   *)
(* year = floor(n / 10000), month = floor((n mod 10000) / 100),            *)
(* day = n mod 100, and is unparsable exactly when one of the three is     *)
(* zero; no partial triple is returned.                                    *)
(***************************************************************************)
PackedNumberParse ==
  (pc = "parsed" /\ dateValue.t = "num" /\ dateValue.n >= 0) =>
    LET n == dateValue.n
        y == n \div 10000
        m == (n % 10000) \div 100
        d == n % 100
    IN  IF y = 0 \/ m = 0 \/ d = 0
        THEN parsed = None
        ELSE parsed = Some([y |-> y, m |-> m, d |-> d])

PackedNumberParseWitness ==
  /\ pc = "parsed"
  /\ dateValue = NumV(20131)
  /\ parsed = Some([y |-> 2, m |-> 1, d |-> 31])

(***************************************************************************)
(* C13: Gregorian toAbsoluteDay does not validate the day of the month:    *)
(* for every non-leap year y >= 0, toAbsoluteDay(y, 2, 29) =               *)
(* toAbsoluteDay(y, 3, 1), and fromAbsoluteDay of it is (y, 3, 1); the     *)
(* custom-calendar toAbsoluteDayWithMonths clamps d into                   *)
(* [1, months[m-1]] and never leaves the month.                            *)
(***************************************************************************)
NonLeapYear(y) == y % 4 # 0 \/ (y % 100 = 0 /\ y % 400 # 0)

\* the first day of month m of year y of the custom calendar ms
FirstDayOfCustomMonth(y, m, ms) ==
  y * SumSeq(ms) + SumSeq(SubSeq(ms, 1, m - 1))

DayRollsOverOnlyInGregorian ==
  /\ (/\ pc \in {"fromAbs", "calDone"}
      /\ months = <<>>
      /\ date.y >= 0
      /\ NonLeapYear(date.y)
      /\ date.m = 2
      /\ date.d = 29) =>
        /\ absDay = Some(toAbsoluteDay(date.y, 3, 1))
        /\ pc = "calDone" => back = Some([y |-> date.y, m |-> 3, d |-> 1])
  /\ (/\ pc \in {"fromAbs", "calDone"}
      /\ months # <<>>
      /\ date.m \in 1..Len(months)) =>
        LET first == FirstDayOfCustomMonth(date.y, date.m, months)
            len == months[date.m]
            day == IF date.d < 1 THEN 1 ELSE IF date.d > len THEN len ELSE date.d
        IN  /\ absDay = Some(first + day - 1)
            /\ absDay[1] \in first..(first + len - 1)
            /\ pc = "calDone" =>
                 back = Some([y |-> date.y, m |-> date.m, d |-> day])

DayRollsOverOnlyInGregorianWitness ==
  /\ pc = "calDone"
  /\ months = <<>>
  /\ date = [y |-> 100, m |-> 2, d |-> 29]
  /\ back = Some([y |-> 100, m |-> 3, d |-> 1])

(***************************************************************************)
(* C14: toAbsoluteDay is strictly order-preserving on the signed           *)
(* timeline: for valid Gregorian dates with years of either sign, an       *)
(* earlier date has a smaller absolute day, so no two dates share one.     *)
(* Stated on each valid date and the day before it.                        *)
(***************************************************************************)
ValidSignedGregorian(dt) ==
  /\ dt.m \in 1..12
  /\ dt.d \in 1..MonthDays(dt.y)[dt.m]

\* the calendar day before dt
DayBefore(dt) ==
  IF dt.d > 1 THEN [dt EXCEPT !.d = dt.d - 1]
  ELSE IF dt.m > 1
  THEN [y |-> dt.y, m |-> dt.m - 1, d |-> MonthDays(dt.y)[dt.m - 1]]
  ELSE [y |-> dt.y - 1, m |-> 12, d |-> 31]

OrderPreservingOnSignedYears ==
  (/\ pc \in {"fromAbs", "calDone"}
   /\ months = <<>>
   /\ ValidSignedGregorian(date)) =>
     LET before == DayBefore(date)
     IN  toAbsoluteDay(before.y, before.m, before.d) < absDay[1]

(***************************************************************************)
(* C15: when no item of the batch has an indexValue,                       *)
(* detectIndexConflicts(sortByIndexOrDate(items)) is empty for every       *)
(* batch, batches with items of identical (startDay, endDay) included.     *)
(***************************************************************************)
DateSortedNeverConflicts ==
  (pc = "done" /\ NoIndexDateSorted) => conflicts = {}

DateSortedNeverConflictsWitness ==
  /\ pc = "done"
  /\ NoIndexDateSorted
  /\ Len(entries) = 3
  /\ Len(sorted) = 3
  /\ \E j, k \in 1..Len(sorted) :
       /\ j < k
       /\ sorted[j].startDay = sorted[k].startDay
       /\ sorted[j].endDay = sorted[k].endDay
  /\ conflicts = {}

(***************************************************************************)
(* C16: assignTracks partitions its input: every input item is in exactly  *)
(* one track exactly once, no track is empty, no item is added or lost,    *)
(* the items of a track keep the relative order of the input, and the      *)
(* input sequence is left unchanged.  After every round the tracks hold    *)
(* the items placed so far in that way.                                    *)
(***************************************************************************)
\* the places <<t, j>> of the tracks
TrackPlaces ==
  {tj \in (1..Len(tracks)) \X (1..Len(sorted)) : tj[2] <= Len(tracks[tj[1]])}

TracksHoldPlacedItems ==
  /\ \A k \in 1..idx :
       Cardinality({tj \in TrackPlaces : tracks[tj[1]][tj[2]] = sorted[k]}) = 1
  /\ Cardinality(TrackPlaces) = idx
  /\ \A t \in 1..Len(tracks) :
       /\ Len(tracks[t]) >= 1
       /\ Len(tracks[t]) <= Len(sorted)
       /\ \A j \in 1..(Len(tracks[t]) - 1) : PlaceOf(t, j) < PlaceOf(t, j + 1)

AssignTracksPartitions ==
  [][/\ pc \in {"assign", "detect"} => sorted' = sorted
     /\ TracksHoldPlacedItems']_vars

AssignTracksPartitionsWitness ==
  /\ pc = "detect"
  /\ Len(sorted) >= 3
  /\ ~StartSorted(sorted)
  /\ Len(tracks) = 2
  /\ \A t \in 1..Len(tracks) : Len(tracks[t]) >= 2

====
